---------------------------- MODULE Spec2Model ----------------------------
(***************************************************************************)
(* CrosswordCreator (generate.py): crossword filling as a constraint       *)
(* satisfaction problem.  solve() enforces node consistency, runs AC-3 and *)
(* then searches by backtracking with the MRV, degree and LCV heuristics.  *)
(*                                                                         *)
(* Words are tuples of letters; Python's 0-based word[i] is w[i + 1].      *)
(* Python sets are iterated in an arbitrary order, so every place where    *)
(* the code iterates a set into a list (the seed worklist, the neighbors   *)
(* re-enqueued, ties of the stable sorts) is a choice over the orders.     *)
(***************************************************************************)
EXTENDS Integers, Sequences, FiniteSets, TLC

(***************************************************************************)
(* Bounds of the model.                                                    *)
(***************************************************************************)
\* largest word universe (crossword.words) explored
MaxWords == 4
\* longest initial worklist handed to ac3(arcs) when it is called directly
MaxArcs == 2

Alphabet == {"A", "B"}
WordLengths == {2, 3}

\* every word the universe may contain
Words == UNION {[1..n -> Alphabet] : n \in WordLengths}

\* the word universes: the non-empty word lists crossword.words may be
Universes == {U \in SUBSET Words : Cardinality(U) \in 1..MaxWords}

(***************************************************************************)
(* Puzzle Model (crossword.Variable / crossword.Crossword).                *)
(***************************************************************************)
ACROSS == "across"
DOWN == "down"

Variable(i, j, direction, length) ==
    [i |-> i, j |-> j, direction |-> direction, length |-> length]

\* the k-th cell (0-based) of a variable
Cell(v, k) ==
    IF v.direction = DOWN THEN <<v.i + k, v.j>> ELSE <<v.i, v.j + k>>

NoOverlap == <<>>

\* crossword.overlaps[x, y]: the offsets (i, j) of the shared cell, or None
overlaps(x, y) ==
    LET shared == {p \in (0..(x.length - 1)) \X (0..(y.length - 1)) :
                       Cell(x, p[1]) = Cell(y, p[2])}
    IN  IF x = y \/ shared = {} THEN NoOverlap ELSE CHOOSE p \in shared : TRUE

\* the grids explored, each given by its set of slots
OneSlot == {Variable(0, 0, ACROSS, 2)}
Crossing == {Variable(0, 0, ACROSS, 2), Variable(0, 1, DOWN, 2)}
Parallel == {Variable(0, 0, ACROSS, 2), Variable(2, 0, ACROSS, 2)}
ThreeSlots == {Variable(0, 0, ACROSS, 3), Variable(0, 0, DOWN, 2),
               Variable(0, 2, DOWN, 3)}
Grids == {OneSlot, Crossing, Parallel, ThreeSlots}

VARIABLES
    crossword,   \* the puzzle: [variables, words]
    domains,     \* self.domains: variable -> set of words
    pc,          \* where solve() / ac3() stands
    arcs,        \* the worklist of ac3
    ac3_ret,     \* the value ac3 returned: "unset", "True", "False"
    assignment,  \* the dict threaded through backtrack
    stack,       \* the active backtrack calls, innermost last: the variable
                 \* selected, the values still to try and (history) the
                 \* assignment the call was entered with
    result,      \* the value being returned by backtrack / solve
    start,       \* history: the domains ac3 was entered with
    last         \* history: <<revised>>, the value the last call of revise
                 \* returned, <<>> before any call

vars == <<crossword, domains, pc, arcs, ac3_ret, assignment, stack, result,
          start, last>>

\* crossword.neighbors(var)
neighbors(var) ==
    {v \in crossword.variables : v # var /\ overlaps(v, var) # NoOverlap}

\* all orders in which a set may be iterated
Orders(S) ==
    {f \in [1..Cardinality(S) -> S] : \A e \in S : \E k \in DOMAIN f : f[k] = e}

(***************************************************************************)
(* Return values.                                                          *)
(***************************************************************************)
\* dict()
NoAssignment == [v \in {} |-> <<>>]
\* nothing returned yet
Unset == [kind |-> "unset", assignment |-> NoAssignment]
None == [kind |-> "None", assignment |-> NoAssignment]
Returned(a) == [kind |-> "dict", assignment |-> a]

\* Python truthiness of a backtrack result: None and the empty dict are falsy
Truthy(r) == r.kind = "dict" /\ DOMAIN r.assignment # {}

(***************************************************************************)
(* __init__                                                                *)
(***************************************************************************)
InitialDomains(cw) == [var \in cw.variables |-> cw.words]

(***************************************************************************)
(* enforce_node_consistency                                                *)
(***************************************************************************)
\* variant: only the words that are too short are taken for invalid
enforce_node_consistency_short(dom) ==
    [var \in DOMAIN dom |-> dom[var] \ {word \in dom[var] : Len(word) < var.length}]

enforce_node_consistency(dom) ==
    [var \in DOMAIN dom |-> dom[var] \ {word \in dom[var] : Len(word) # var.length}]

(***************************************************************************)
(* revise: the domains it leaves and the flag it returns                   *)
(***************************************************************************)
\* variant: the two offsets of the overlap are used the wrong way round
revise_swapped(dom, x, y) ==
    LET overlap == overlaps(x, y)
        kept == IF overlap # NoOverlap
                THEN {word_x \in dom[x] :
                         \E word_y \in dom[y] :
                             /\ overlap[2] < Len(word_x)
                             /\ overlap[1] < Len(word_y)
                             /\ word_x[overlap[2] + 1] = word_y[overlap[1] + 1]}
                ELSE dom[x]
    IN  [domains |-> [dom EXCEPT ![x] = kept], revised |-> kept # dom[x]]

\* variant: domain(x) is rebuilt from the word list instead of being filtered
revise_rebuilt(dom, x, y) ==
    LET overlap == overlaps(x, y)
        kept == IF overlap # NoOverlap
                THEN {word_x \in crossword.words :
                         \E word_y \in dom[y] :
                             /\ overlap[1] < Len(word_x)
                             /\ overlap[2] < Len(word_y)
                             /\ word_x[overlap[1] + 1] = word_y[overlap[2] + 1]}
                ELSE dom[x]
    IN  [domains |-> [dom EXCEPT ![x] = kept], revised |-> kept # dom[x]]

\* variant: an index out of range counts as a match
revise_unguarded(dom, x, y) ==
    LET overlap == overlaps(x, y)
        kept == IF overlap # NoOverlap
                THEN {word_x \in dom[x] :
                         \E word_y \in dom[y] :
                             \/ overlap[1] >= Len(word_x)
                             \/ overlap[2] >= Len(word_y)
                             \/ word_x[overlap[1] + 1] = word_y[overlap[2] + 1]}
                ELSE dom[x]
    IN  [domains |-> [dom EXCEPT ![x] = kept], revised |-> kept # dom[x]]

\* variant: the words without support are removed from domain(y) as well
revise_both(dom, x, y) ==
    LET overlap == overlaps(x, y)
        kept == IF overlap # NoOverlap
                THEN {word_x \in dom[x] :
                         \E word_y \in dom[y] :
                             /\ overlap[1] < Len(word_x)
                             /\ overlap[2] < Len(word_y)
                             /\ word_x[overlap[1] + 1] = word_y[overlap[2] + 1]}
                ELSE dom[x]
    IN  [domains |-> [dom EXCEPT ![x] = kept, ![y] = dom[y] \ (dom[x] \ kept)],
         revised |-> kept # dom[x]]

revise(dom, x, y) ==
    LET overlap == overlaps(x, y)
        kept == IF overlap # NoOverlap
                THEN {word_x \in dom[x] :
                         \E word_y \in dom[y] :
                             /\ overlap[1] < Len(word_x)
                             /\ overlap[2] < Len(word_y)
                             /\ word_x[overlap[1] + 1] = word_y[overlap[2] + 1]}
                ELSE dom[x]
    IN  [domains |-> [dom EXCEPT ![x] = kept], revised |-> kept # dom[x]]

(***************************************************************************)
(* ac3: the seed worklist, the pop and the arcs re-enqueued                *)
(***************************************************************************)
\* [(x, y) for x in variables for y in variables if x != y], the set being
\* iterated in the order `order`
SeedArcs(order) ==
    LET n == Len(order)
        all == [k \in 1..(n * n) |->
                   <<order[((k - 1) \div n) + 1], order[((k - 1) % n) + 1]>>]
    IN  SelectSeq(all, LAMBDA arc : arc[1] # arc[2])

\* the worklists a direct caller may hand to ac3(arcs)
Worklists(variables) ==
    LET pairs == {arc \in variables \X variables : arc[1] # arc[2]}
    IN  UNION {[1..n -> pairs] : n \in 0..MaxArcs}

\* variant: the arc is read but left on the worklist
Popped_kept(worklist) == worklist

\* arcs after arcs.pop(0)
Popped(worklist) == Tail(worklist)

\* variant: the emptiness test is inverted
ac3_fails_inverted(dom, revised, x) == revised /\ dom[x] # {}

\* ac3 returns False: revise removed a word and left domain(x) empty
ac3_fails(dom, revised, x) == revised /\ dom[x] = {}

\* variant: the arcs (x, z) are appended instead of (z, x)
Enqueued_reversed(revised, x, y) ==
    IF revised
    THEN LET todo == {z \in neighbors(x) : z # y}
         IN  {[k \in DOMAIN zs |-> <<x, zs[k]>>] : zs \in Orders(todo)}
    ELSE {<<>>}

\* the arcs appended after revise(x, y) returned `revised` and left domain(x)
\* non-empty, the neighbors of x being iterated in any order
Enqueued(revised, x, y) ==
    IF revised
    THEN LET todo == {z \in neighbors(x) : z # y}
         IN  {[k \in DOMAIN zs |-> <<zs[k], x>>] : zs \in Orders(todo)}
    ELSE {<<>>}

(***************************************************************************)
(* assignment_complete, consistent                                         *)
(***************************************************************************)
\* variant: the assignment must hold more entries than there are variables
assignment_complete_beyond(a) ==
    Cardinality(DOMAIN a) > Cardinality(crossword.variables)

assignment_complete(a) == DOMAIN a = crossword.variables

consistent(a) ==
    /\ Cardinality({a[var] : var \in DOMAIN a}) = Cardinality(DOMAIN a)
    /\ \A var \in DOMAIN a : var.length = Len(a[var])
    /\ \A var1, var2 \in DOMAIN a :
          (var1 # var2 /\ overlaps(var1, var2) # NoOverlap) =>
              LET overlap == overlaps(var1, var2)
              IN  a[var1][overlap[1] + 1] = a[var2][overlap[2] + 1]

(***************************************************************************)
(* order_domain_values                                                     *)
(***************************************************************************)
\* the (neighbor, neighbor_value) pairs count_conflicts looks at
ConflictPairs(dom, var, a) ==
    {p \in (neighbors(var) \ DOMAIN a) \X Words : p[2] \in dom[p[1]]}

\* value[overlap[0]] or neighbor_value[overlap[1]] raises IndexError
order_raises(dom, var, a) ==
    \E value \in dom[var], p \in ConflictPairs(dom, var, a) :
        LET overlap == overlaps(var, p[1])
        IN  overlap[1] >= Len(value) \/ overlap[2] >= Len(p[2])

\* variant: the values that agree are counted instead of those that differ
count_conflicts_agreeing(dom, var, a, value) ==
    Cardinality({p \in ConflictPairs(dom, var, a) :
                    LET overlap == overlaps(var, p[1])
                    IN  value[overlap[1] + 1] = p[2][overlap[2] + 1]})

count_conflicts(dom, var, a, value) ==
    Cardinality({p \in ConflictPairs(dom, var, a) :
                    LET overlap == overlaps(var, p[1])
                    IN  value[overlap[1] + 1] # p[2][overlap[2] + 1]})

\* variant: the list is built from the words of the right length, pruned or not
order_domain_values_unpruned(dom, var, a) ==
    Orders({word \in crossword.words : Len(word) = var.length})

\* the lists the stable sort of list(self.domains[var]) may return
order_domain_values(dom, var, a) ==
    {domain_values \in Orders(dom[var]) :
        \A k1, k2 \in DOMAIN domain_values :
            k1 < k2 => count_conflicts(dom, var, a, domain_values[k1])
                          <= count_conflicts(dom, var, a, domain_values[k2])}

(***************************************************************************)
(* select_unassigned_variable                                              *)
(***************************************************************************)
\* variant: the degree is not negated in the key
KeyLeq_ascending(dom, v, u) ==
    \/ Cardinality(dom[v]) < Cardinality(dom[u])
    \/ /\ Cardinality(dom[v]) = Cardinality(dom[u])
       /\ Cardinality(neighbors(v)) <= Cardinality(neighbors(u))

\* (num_remaining_values(var), -len(neighbors(var))) compared as tuples
KeyLeq(dom, v, u) ==
    \/ Cardinality(dom[v]) < Cardinality(dom[u])
    \/ /\ Cardinality(dom[v]) = Cardinality(dom[u])
       /\ -Cardinality(neighbors(v)) <= -Cardinality(neighbors(u))

\* the variables the sort may put first
select_unassigned_variable(dom, a) ==
    LET unassigned_vars == crossword.variables \ DOMAIN a
    IN  {var \in unassigned_vars : \A u \in unassigned_vars : KeyLeq(dom, var, u)}

(***************************************************************************)
(* backtrack: del assignment[var]                                          *)
(***************************************************************************)
\* variant: the entry is left in the assignment
Unassigned_kept(a, var) == a

Unassigned(a, var) == [v \in DOMAIN a \ {var} |-> a[v]]

(***************************************************************************)
(* The state machine of solve()                                            *)
(***************************************************************************)
Puzzles == {[variables |-> G, words |-> U] : G \in Grids, U \in Universes}

Init ==
    /\ crossword \in Puzzles
    /\ domains = InitialDomains(crossword)
    /\ pc = "solve"
    /\ arcs = <<>>
    /\ ac3_ret = "unset"
    /\ assignment = NoAssignment
    /\ stack = <<>>
    /\ result = Unset
    /\ start = domains
    /\ last = <<>>

\* solve, line 92
EnforceNodeConsistency ==
    /\ pc = "solve"
    /\ domains' = enforce_node_consistency(domains)
    /\ pc' = "ac3_seed"
    /\ UNCHANGED <<crossword, arcs, ac3_ret, assignment, stack, result, start, last>>

\* solve, line 93, and ac3, lines 141-142
AC3Seed ==
    /\ pc = "ac3_seed"
    /\ \E order \in Orders(crossword.variables) : arcs' = SeedArcs(order)
    /\ pc' = "ac3"
    /\ start' = domains
    /\ UNCHANGED <<crossword, domains, ac3_ret, assignment, stack, result, last>>

\* one iteration of the while loop of ac3
AC3Revise ==
    /\ pc = "ac3"
    /\ arcs # <<>>
    /\ LET x == Head(arcs)[1]
           y == Head(arcs)[2]
           r == revise(domains, x, y)
       IN  /\ domains' = r.domains
           /\ last' = <<r.revised>>
           /\ IF ac3_fails(r.domains, r.revised, x)
              THEN /\ ac3_ret' = "False"
                   /\ pc' = "ac3_done"
                   /\ arcs' = Popped(arcs)
              ELSE /\ \E more \in Enqueued(r.revised, x, y) :
                          arcs' = Popped(arcs) \o more
                   /\ UNCHANGED <<ac3_ret, pc>>
    /\ UNCHANGED <<crossword, assignment, stack, result, start>>

\* the while loop of ac3 ends: line 152
AC3Exhausted ==
    /\ pc = "ac3"
    /\ arcs = <<>>
    /\ ac3_ret' = "True"
    /\ pc' = "ac3_done"
    /\ UNCHANGED <<crossword, domains, arcs, assignment, stack, result, start, last>>

\* solve, line 94: backtrack(dict()), the value of ac3 being dropped
SolveBacktrack ==
    /\ pc = "ac3_done"
    /\ assignment' = NoAssignment
    /\ pc' = "call"
    /\ UNCHANGED <<crossword, domains, arcs, ac3_ret, stack, result, start, last>>

\* backtrack is entered: lines 239-246.  An index out of range in
\* count_conflicts ends solve() with an IndexError (pc = "raised"); on
\* node-consistent domains it cannot happen.
BacktrackCall ==
    /\ pc = "call"
    /\ IF assignment_complete(assignment)
       THEN /\ result' = Returned(assignment)
            /\ pc' = "return"
            /\ UNCHANGED stack
       ELSE \E var \in select_unassigned_variable(domains, assignment) :
               IF order_raises(domains, var, assignment)
               THEN /\ pc' = "raised"
                    /\ UNCHANGED <<stack, result>>
               ELSE /\ \E values \in order_domain_values(domains, var, assignment) :
                           stack' = Append(stack, [var |-> var, values |-> values,
                                                   entered |-> assignment])
                    /\ pc' = "loop"
                    /\ UNCHANGED result
    /\ UNCHANGED <<crossword, domains, arcs, ac3_ret, assignment, start, last>>

\* one iteration of the for loop with consistent(assignment): lines 247-251
LoopAssign ==
    /\ pc = "loop"
    /\ LET frame == stack[Len(stack)]
       IN  /\ frame.values # <<>>
           /\ consistent(assignment)
           /\ assignment' = (frame.var :> Head(frame.values)) @@ assignment
           /\ stack' = [stack EXCEPT ![Len(stack)].values = Tail(frame.values)]
    /\ pc' = "call"
    /\ UNCHANGED <<crossword, domains, arcs, ac3_ret, result, start, last>>

\* one iteration of the for loop without consistent(assignment): line 247
LoopSkip ==
    /\ pc = "loop"
    /\ LET frame == stack[Len(stack)]
       IN  /\ frame.values # <<>>
           /\ ~consistent(assignment)
           /\ stack' = [stack EXCEPT ![Len(stack)].values = Tail(frame.values)]
    /\ UNCHANGED <<crossword, domains, pc, arcs, ac3_ret, assignment, result,
                   start, last>>

\* the for loop ends: line 261
LoopExhausted ==
    /\ pc = "loop"
    /\ stack[Len(stack)].values = <<>>
    /\ stack' = SubSeq(stack, 1, Len(stack) - 1)
    /\ result' = None
    /\ pc' = "return"
    /\ UNCHANGED <<crossword, domains, arcs, ac3_ret, assignment, start, last>>

\* a call of backtrack returns to backtrack: lines 251-258
BacktrackReturn ==
    /\ pc = "return"
    /\ stack # <<>>
    /\ IF Truthy(result)
       THEN /\ stack' = SubSeq(stack, 1, Len(stack) - 1)
            /\ UNCHANGED <<pc, assignment>>
       ELSE /\ assignment' = Unassigned(assignment, stack[Len(stack)].var)
            /\ pc' = "loop"
            /\ UNCHANGED stack
    /\ UNCHANGED <<crossword, domains, arcs, ac3_ret, result, start, last>>

\* the outermost call of backtrack returns to solve: line 94
SolveReturn ==
    /\ pc = "return"
    /\ stack = <<>>
    /\ pc' = "done"
    /\ UNCHANGED <<crossword, domains, arcs, ac3_ret, assignment, stack, result,
                   start, last>>

Next ==
    \/ EnforceNodeConsistency
    \/ AC3Seed
    \/ AC3Revise
    \/ AC3Exhausted
    \/ SolveBacktrack
    \/ BacktrackCall
    \/ LoopAssign
    \/ LoopSkip
    \/ LoopExhausted
    \/ BacktrackReturn
    \/ SolveReturn

Spec == Init /\ [][Next]_vars

(***************************************************************************)
(* What a solution of the puzzle is, stated apart from the code            *)
(***************************************************************************)
Complete(a) == DOMAIN a = crossword.variables

Valid(a) ==
    /\ \A x, y \in DOMAIN a : x # y => a[x] # a[y]
    /\ \A x \in DOMAIN a : Len(a[x]) = x.length
    /\ \A x, y \in DOMAIN a :
          overlaps(x, y) # NoOverlap =>
              a[x][overlaps(x, y)[1] + 1] = a[y][overlaps(x, y)[2] + 1]

\* brute force: every mapping from the variables to the words of the universe
Solutions ==
    {a \in [crossword.variables -> crossword.words] : Valid(a)}

NodeConsistentDomains == enforce_node_consistency(InitialDomains(crossword))

Unmatched(v) == \A word \in crossword.words : Len(word) # v.length

(***************************************************************************)
(* C1: any assignment returned by solve() is complete and consistent       *)
(* (distinct words, matching lengths, agreeing overlaps).  Refuted: the    *)
(* last value assigned is never checked.                                   *)
(***************************************************************************)
C1_ReturnedAssignmentValid ==
    (pc = "done" /\ result.kind = "dict") =>
        (Complete(result.assignment) /\ Valid(result.assignment))

(***************************************************************************)
(* C2: if solve() returns None, brute force finds no complete consistent   *)
(* assignment either.                                                      *)
(***************************************************************************)
C2_NoneMeansNoSolution ==
    (pc = "done" /\ result.kind = "None") => Solutions = {}

\* the search itself ran out of choices, every domain being non-empty
C2_Witness ==
    /\ pc = "done"
    /\ result.kind = "None"
    /\ ac3_ret = "True"
    /\ \A v \in crossword.variables : domains[v] # {}

(***************************************************************************)
(* C3: whenever a complete consistent assignment exists, solve() returns a *)
(* complete consistent assignment.  Refuted, by the defect of C1.          *)
(***************************************************************************)
C3_SolutionFoundWhenOneExists ==
    (pc = "done" /\ Solutions # {}) =>
        (result.kind = "dict" /\ result.assignment \in Solutions)

(***************************************************************************)
(* C4: when the AC-3 run inside solve() reports failure, solve() returns   *)
(* None, though it does not look at the value ac3() returned.              *)
(***************************************************************************)
C4_AC3FailureMeansNone ==
    (pc = "done" /\ ac3_ret = "False") => result.kind = "None"

C4_Witness ==
    /\ pc = "done"
    /\ ac3_ret = "False"
    /\ result.kind = "None"
    /\ Cardinality(crossword.variables) > 1

(***************************************************************************)
(* C5: if the length of some variable matches no word of the universe,     *)
(* solve() returns None, whether or not that variable overlaps another.    *)
(***************************************************************************)
C5_UnmatchedLengthMeansNone ==
    (pc = "done" /\ \E v \in crossword.variables : Unmatched(v)) =>
        result.kind = "None"

\* the unmatched variable overlaps nothing, so AC-3 reported success
C5_Witness ==
    /\ pc = "done"
    /\ result.kind = "None"
    /\ ac3_ret = "True"
    /\ crossword.words # {}
    /\ \E v \in crossword.variables : Unmatched(v) /\ neighbors(v) = {}

(***************************************************************************)
(* C6: ac3() returns True exactly when every domain is non-empty when it   *)
(* finishes.  Refuted: a domain that was empty before ac3 ran is not       *)
(* noticed.                                                                *)
(***************************************************************************)
C6_AC3TrueIffNoEmptyDomain ==
    pc = "ac3_done" =>
        (ac3_ret = "True" <=> \A v \in crossword.variables : domains[v] # {})

(***************************************************************************)
(* C7: if ac3(), seeded with every ordered pair of distinct variables,     *)
(* reports success, every word left in a domain has, for every neighbor,   *)
(* a word in the neighbor's domain with the same letter at the overlap.    *)
(***************************************************************************)
C7_AC3Sound ==
    (pc = "ac3_done" /\ ac3_ret = "True") =>
        \A x \in crossword.variables : \A wx \in domains[x] :
            \A y \in neighbors(x) : \E wy \in domains[y] :
                wx[overlaps(x, y)[1] + 1] = wy[overlaps(x, y)[2] + 1]

\* a variable with two neighbors lost a word to a revision and kept another
C7_Witness ==
    /\ pc = "ac3_done"
    /\ ac3_ret = "True"
    /\ \E x \in crossword.variables :
          /\ Cardinality(neighbors(x)) > 1
          /\ domains[x] # {}
          /\ domains[x] # NodeConsistentDomains[x]

(***************************************************************************)
(* C8: in every step of solve() each domain is a subset of what it was: a  *)
(* word once removed is never put back.                                    *)
(***************************************************************************)
C8_DomainsOnlyShrink ==
    [][\A v \in crossword.variables : domains'[v] \subseteq domains[v]]_vars

\* the search runs on a domain that lost words to both kinds of pruning
C8_Witness ==
    /\ pc = "loop"
    /\ \E v \in crossword.variables :
          /\ domains[v] # NodeConsistentDomains[v]
          /\ NodeConsistentDomains[v] # crossword.words

(***************************************************************************)
(* C9: after enforce_node_consistency() each domain is exactly the words   *)
(* of the universe that have the variable's length, and applying it again  *)
(* changes no domain.                                                      *)
(***************************************************************************)
C9_NodeConsistencyExactIdempotent ==
    pc = "ac3_seed" =>
        /\ \A v \in crossword.variables :
              domains[v] = {word \in crossword.words : Len(word) = v.length}
        /\ enforce_node_consistency(domains) = domains

\* words of the wrong length were removed and words of the right length kept
C9_Witness ==
    /\ pc = "ac3_seed"
    /\ \E v \in crossword.variables :
          domains[v] # {} /\ domains[v] # crossword.words

(***************************************************************************)
(* C11: in the search an entry variable -> value is added only if the      *)
(* assignment with that entry is consistent, so every assignment           *)
(* backtrack() is recursively invoked on is consistent.  Refuted: the      *)
(* test is made on the assignment without the entry.                       *)
(***************************************************************************)
C11_RecursionOnConsistentAssignment ==
    (pc = "call" /\ stack # <<>>) => Valid(assignment)

(***************************************************************************)
(* C12: for x, y with overlap (i, j), revise(x, y) leaves in domain(x)     *)
(* exactly the words wx of the old domain(x) for which some wy of          *)
(* domain(y) has i < len(wx), j < len(wy) and wx[i] = wy[j], and it        *)
(* returns True exactly when a word was removed.                           *)
(***************************************************************************)
Supported(wx, x, y) ==
    \E wy \in domains[y] :
        /\ overlaps(x, y)[1] < Len(wx)
        /\ overlaps(x, y)[2] < Len(wy)
        /\ wx[overlaps(x, y)[1] + 1] = wy[overlaps(x, y)[2] + 1]

C12_ReviseExact ==
    [][(pc = "ac3" /\ arcs # <<>>) =>
          LET x == Head(arcs)[1]
              y == Head(arcs)[2]
          IN  /\ overlaps(x, y) # NoOverlap =>
                    domains'[x] = {wx \in domains[x] : Supported(wx, x, y)}
              /\ last' = <<domains'[x] # domains[x]>>]_vars

\* a revision removed a word only because its index was out of range: every
\* other neighbor still supports it, and it is too short for a third letter
C12_Witness ==
    /\ last = <<TRUE>>
    /\ \E x \in crossword.variables : \E y \in neighbors(x) :
          /\ overlaps(x, y)[1] = 2
          /\ domains[x] # {}
          /\ \E wx \in start[x] \ domains[x] :
                /\ Len(wx) = 2
                /\ \A z \in neighbors(x) \ {y} : Supported(wx, x, z)

(***************************************************************************)
(* C13: revise(x, y) changes nothing but domain(x), and when x and y have  *)
(* no overlap it changes no domain at all and returns False.               *)
(***************************************************************************)
C13_ReviseFrame ==
    [][(pc = "ac3" /\ arcs # <<>>) =>
          LET x == Head(arcs)[1]
              y == Head(arcs)[2]
          IN  /\ \A v \in crossword.variables \ {x} : domains'[v] = domains[v]
              /\ overlaps(x, y) = NoOverlap =>
                    (domains' = domains /\ last' = <<FALSE>>)]_vars

\* revise ran on a grid without any overlap, on domains that are not empty
C13_Witness ==
    /\ last = <<FALSE>>
    /\ \A x, y \in crossword.variables : overlaps(x, y) = NoOverlap
    /\ \A x \in crossword.variables : domains[x] # {}
    /\ Cardinality(crossword.variables) > 1

(***************************************************************************)
(* C14: in ac3(), after popping (x, y): if revise removed a word and       *)
(* domain(x) is not empty, exactly the arcs (z, x) for the neighbors z of  *)
(* x other than y are appended; if it removed nothing, nothing is          *)
(* appended; if domain(x) became empty, ac3() reports failure at once and  *)
(* processes no further arc.                                               *)
(***************************************************************************)
C14_Reenqueue ==
    [][/\ (pc = "ac3" /\ arcs # <<>>) =>
            LET x == Head(arcs)[1]
                y == Head(arcs)[2]
                removed == domains'[x] # domains[x]
                added == SubSeq(arcs', Len(arcs), Len(arcs'))
            IN  /\ SubSeq(arcs', 1, Len(arcs) - 1) = Tail(arcs)
                /\ (removed /\ domains'[x] # {}) =>
                      /\ {added[k] : k \in DOMAIN added}
                            = {<<z, x>> : z \in neighbors(x) \ {y}}
                      /\ Len(added) = Cardinality(neighbors(x) \ {y})
                      /\ pc' = "ac3"
                /\ ~removed => (added = <<>> /\ pc' = "ac3")
                /\ (removed /\ domains'[x] = {}) =>
                      (pc' = "ac3_done" /\ ac3_ret' = "False")
       /\ pc = "ac3_done" => (domains' = domains /\ arcs' = arcs)]_vars

\* a revision shrank the domain of a variable with two neighbors and the
\* worklist now ends with an arc into that variable
C14_Witness ==
    /\ pc = "ac3"
    /\ last = <<TRUE>>
    /\ arcs # <<>>
    /\ LET x == arcs[Len(arcs)][2]
       IN  /\ Cardinality(neighbors(x)) > 1
           /\ arcs[Len(arcs)][1] \in neighbors(x)
           /\ domains[x] # {}
           /\ domains[x] # start[x]

(***************************************************************************)
(* C16: backtracking rolls back only the assignment: when a call of        *)
(* backtrack returns failure the assignment holds exactly the entries it   *)
(* held when the call was entered, and no step of the search changes a     *)
(* domain.                                                                 *)
(***************************************************************************)
C16_OnlyAssignmentRolledBack ==
    [][/\ pc \in {"call", "loop", "return"} => domains' = domains
       /\ (pc = "loop" /\ pc' = "return") =>
             /\ result'.kind = "None"
             /\ assignment' = stack[Len(stack)].entered]_vars

\* an inner call that had values to try on a consistent assignment returned
\* failure: it assigned, recursed and undid
C16_Witness ==
    /\ pc = "return"
    /\ result.kind = "None"
    /\ stack # <<>>
    /\ \A v \in crossword.variables : domains[v] # {}
    /\ consistent(assignment)

(***************************************************************************)
(* C17: select_unassigned_variable returns a variable v that is not in the *)
(* assignment, such that no unassigned variable has a smaller domain and,  *)
(* among the unassigned variables with a domain of the same size, none has *)
(* more neighbors.                                                         *)
(***************************************************************************)
C17_SelectMRVThenDegree ==
    [][(pc = "call" /\ pc' = "loop") =>
          LET v == stack'[Len(stack')].var
              unassigned == crossword.variables \ DOMAIN assignment
          IN  /\ v \in unassigned
              /\ \A u \in unassigned :
                    /\ Cardinality(domains[v]) <= Cardinality(domains[u])
                    /\ Cardinality(domains[u]) = Cardinality(domains[v]) =>
                          Cardinality(neighbors(u)) <= Cardinality(neighbors(v))]_vars

\* the variable just selected won a tie on the domain size by its degree
C17_Witness ==
    /\ pc = "loop"
    /\ LET top == stack[Len(stack)]
       IN  /\ assignment = top.entered
           /\ Len(top.values) = Cardinality(domains[top.var])
           /\ \E u \in crossword.variables \ DOMAIN assignment :
                 /\ Cardinality(domains[u]) = Cardinality(domains[top.var])
                 /\ Cardinality(neighbors(u)) < Cardinality(neighbors(top.var))

(***************************************************************************)
(* C18: order_domain_values(var, assignment) returns every word of         *)
(* domain(var) exactly once, in ascending order of the number of pairs     *)
(* (unassigned neighbor n, word wn of domain(n)) whose letter at the       *)
(* overlap differs from the candidate's, and leaves every domain as it is. *)
(***************************************************************************)
RuledOut(var, a, value) ==
    Cardinality({p \in (neighbors(var) \ DOMAIN a) \X crossword.words :
                    /\ p[2] \in domains[p[1]]
                    /\ value[overlaps(var, p[1])[1] + 1]
                          # p[2][overlaps(var, p[1])[2] + 1]})

C18_OrderLeastConstraining ==
    [][(pc = "call" /\ pc' = "loop") =>
          LET var == stack'[Len(stack')].var
              values == stack'[Len(stack')].values
          IN  /\ {values[k] : k \in DOMAIN values} = domains[var]
              /\ Len(values) = Cardinality(domains[var])
              /\ \A k \in 1..(Len(values) - 1) :
                    RuledOut(var, assignment, values[k])
                       <= RuledOut(var, assignment, values[k + 1])
              /\ domains' = domains]_vars

\* the list just returned starts with a word that rules out fewer words
\* than the word it ends with
C18_Witness ==
    /\ pc = "loop"
    /\ LET top == stack[Len(stack)]
       IN  /\ assignment = top.entered
           /\ Len(top.values) = Cardinality(domains[top.var])
           /\ Len(top.values) > 1
           /\ RuledOut(top.var, assignment, top.values[1])
                 < RuledOut(top.var, assignment, top.values[Len(top.values)])

(***************************************************************************)
(* ac3(arcs) called directly: any worklist, on the domains __init__ or     *)
(* enforce_node_consistency left                                           *)
(***************************************************************************)
\* the words a direct caller's universe is drawn from
DirectWords ==
    {<<"A", "A">>, <<"A", "B">>, <<"B", "A">>, <<"A", "A", "A">>, <<"B", "A", "B">>}

DirectPuzzles ==
    {[variables |-> G, words |-> U] : G \in Grids, U \in SUBSET DirectWords \ {{}}}

InitAC3 ==
    /\ crossword \in DirectPuzzles
    /\ domains \in {InitialDomains(crossword),
                    enforce_node_consistency(InitialDomains(crossword))}
    /\ pc = "ac3"
    /\ arcs \in Worklists(crossword.variables)
                \cup {SeedArcs(order) : order \in Orders(crossword.variables)}
    /\ ac3_ret = "unset"
    /\ assignment = NoAssignment
    /\ stack = <<>>
    /\ result = Unset
    /\ start = domains
    /\ last = <<>>

NextAC3 == AC3Revise \/ AC3Exhausted

SpecAC3 == InitAC3 /\ [][NextAC3]_vars

\* the while loop of ac3 keeps running: nothing in it waits
FairAC3 == SpecAC3 /\ WF_vars(NextAC3)

(***************************************************************************)
(* ac3(arcs) called with every ordered pair of distinct variables, in any  *)
(* order                                                                   *)
(***************************************************************************)
AllArcs(variables) == {arc \in variables \X variables : arc[1] # arc[2]}

InitSeeded ==
    /\ crossword \in DirectPuzzles
    /\ domains \in {InitialDomains(crossword),
                    enforce_node_consistency(InitialDomains(crossword))}
    /\ pc = "ac3"
    /\ arcs \in Orders(AllArcs(crossword.variables))
    /\ ac3_ret = "unset"
    /\ assignment = NoAssignment
    /\ stack = <<>>
    /\ result = Unset
    /\ start = domains
    /\ last = <<>>

SpecSeeded == InitSeeded /\ [][NextAC3]_vars

(***************************************************************************)
(* C15: the order of the arcs does not affect the outcome of AC-3: from    *)
(* the same domains, seeded with every ordered pair of distinct variables, *)
(* every order gives the same success or failure and, on success, the      *)
(* same final domains.  Both are stated as functions of the domains ac3    *)
(* started with: the largest arc-consistent domains within them.           *)
(***************************************************************************)
Pruned(dom) ==
    [x \in DOMAIN dom |->
        {wx \in dom[x] :
            \A y \in neighbors(x) : \E wy \in dom[y] :
                /\ overlaps(x, y)[1] < Len(wx)
                /\ overlaps(x, y)[2] < Len(wy)
                /\ wx[overlaps(x, y)[1] + 1] = wy[overlaps(x, y)[2] + 1]}]

RECURSIVE ArcConsistentCore(_)
ArcConsistentCore(dom) ==
    IF Pruned(dom) = dom THEN dom ELSE ArcConsistentCore(Pruned(dom))

C15_ArcOrderIrrelevant ==
    pc = "ac3_done" =>
        LET core == ArcConsistentCore(start)
        IN  /\ ac3_ret = "True" <=>
                   \A x \in crossword.variables : core[x] = {} => start[x] = {}
            /\ ac3_ret = "True" => domains = core

\* success after two variables each lost words and kept others
C15_Witness ==
    /\ pc = "ac3_done"
    /\ ac3_ret = "True"
    /\ \E x, y \in crossword.variables :
          /\ x # y
          /\ domains[x] # {} /\ domains[x] # start[x]
          /\ domains[y] # {} /\ domains[y] # start[y]

(***************************************************************************)
(* C10: ac3() terminates for every initial worklist: its loop ends with    *)
(* the worklist empty or with a failure reported.                          *)
(***************************************************************************)
C10_AC3Terminates == <>(pc = "ac3_done")

\* ac3 ended after a revision that made it append an arc
C10_Witness ==
    /\ pc = "ac3_done"
    /\ ac3_ret = "True"
    /\ \E x \in crossword.variables :
          /\ Cardinality(neighbors(x)) > 1
          /\ domains[x] # {}
          /\ domains[x] \notin {crossword.words, NodeConsistentDomains[x]}

(***************************************************************************)
(* C20: in every assignment that exists during solve() or is returned by   *)
(* it, the word of each variable is a member of the current domain of that *)
(* variable, so its length is the variable's length: the search never      *)
(* assigns a word that pruning removed.                                    *)
(***************************************************************************)
WithinDomains(a) ==
    \A v \in DOMAIN a : a[v] \in domains[v] /\ Len(a[v]) = v.length

C20_AssignedWordsInDomain ==
    /\ WithinDomains(assignment)
    /\ result.kind = "dict" => WithinDomains(result.assignment)

\* an assignment was returned for a puzzle in which ac3 pruned a domain
C20_Witness ==
    /\ pc = "done"
    /\ result.kind = "dict"
    /\ Complete(result.assignment)
    /\ \E v \in crossword.variables :
          domains[v] # {} /\ domains[v] # NodeConsistentDomains[v]

(***************************************************************************)
(* solve() on the puzzles over DirectWords, every step of it taken in turn *)
(***************************************************************************)
InitSolve ==
    /\ crossword \in DirectPuzzles
    /\ domains = InitialDomains(crossword)
    /\ pc = "solve"
    /\ arcs = <<>>
    /\ ac3_ret = "unset"
    /\ assignment = NoAssignment
    /\ stack = <<>>
    /\ result = Unset
    /\ start = domains
    /\ last = <<>>

SpecSolve == InitSolve /\ [][Next]_vars

\* solve() is sequential code: nothing in it waits
FairSolve == SpecSolve /\ WF_vars(Next)

(***************************************************************************)
(* C19: solve() terminates with a complete assignment or with None, and    *)
(* during the search the number of tentatively assigned variables, and     *)
(* with it the depth of the recursion of backtrack, never exceeds the      *)
(* number of variables.                                                    *)
(***************************************************************************)
C19_SolveTerminatesBoundedDepth ==
    /\ <>(/\ pc = "done"
          /\ \/ result = None
             \/ result.kind = "dict" /\ Complete(result.assignment))
    /\ [](/\ Cardinality(DOMAIN assignment) <= Cardinality(crossword.variables)
          /\ Len(stack) <= Cardinality(crossword.variables))

\* solve() ended with None after a search that assigned all but one variable
\* of a three-slot puzzle none of whose domains is empty
C19_Witness ==
    /\ pc = "done"
    /\ result = None
    /\ Cardinality(crossword.variables) = 3
    /\ \A v \in crossword.variables : domains[v] # {}

=============================================================================
